---- MODULE Spec2Model ----
(***************************************************************************)
(* Model of Script_stoichiometry_from_dimer.py: the four functions rmsd,   *)
(* rmsd_list_from_dimer, min_rmsd and predict_stoichiometry.               *)
(*                                                                         *)
(* One behaviour is one top-level call.  `call` names the entry point:     *)
(*   "min_rmsd"              min_rmsd(rmsd_list) on an arbitrary list,      *)
(*   "rmsd"                  rmsd(chain_1, chain_2, structure),             *)
(*   "predict_stoichiometry" predict_stoichiometry(.., .., list_len),       *)
(*                           which runs rmsd_list_from_dimer and min_rmsd.  *)
(*                                                                         *)
(* Python values: indices are 0-based as in the source; At(s, i) reads the *)
(* Python element s[i] of a TLA+ sequence.  None and exceptions are tagged *)
(* records.  The float returned by rmsd, sqrt(summ/N)*10.0, is kept as the *)
(* exact integer Scale*summ/N (its square over 100, times Scale): sqrt and *)
(* the factor 10 are strictly increasing on non-negative numbers, so the   *)
(* order of two values and being zero are those of the floats.             *)
(*                                                                         *)
(* The PyMOL session is kept as the sequence of commands issued to it; the *)
(* structure md.load returns is an input of the model.                     *)
(***************************************************************************)
EXTENDS Integers, Sequences, FiniteSets

VARIABLES call, pc, i, rmsd_list, chain_1, chain_2, structure,
          list_len, session, chain_list, m, result

vars == <<call, pc, i, rmsd_list, chain_1, chain_2, structure,
          list_len, session, chain_list, m, result>>

(* ------------------------------ bounds -------------------------------- *)

\* longest list handed to min_rmsd directly
MaxLen == 5
\* largest number in a list handed to min_rmsd directly
MaxVal == 2
\* atoms of the structure handed to rmsd directly
NAtoms == 2
\* longest chain (atom-index list) handed to rmsd directly
MaxChainLen == 2
\* largest list_len (max_expected_stoichiometry)
MaxListLen == 4
\* most atoms in one chain of the reloaded structure
MaxAtoms == 2

\* coordinates an atom may have (pairwise distinct squared distances 1, 5, 6)
Points == {<<0, 0, 0>>, <<1, 0, 0>>, <<0, 2, 1>>}

(* --------------------------- Python values ---------------------------- *)

None == [type |-> "NoneType", v |-> 0]
PyInt(n) == [type |-> "int", v |-> n]
PyFloat(x) == [type |-> "float", v |-> x]
Return(x) == [kind |-> "return", value |-> x]
Raise(e) == [kind |-> "raise", value |-> [type |-> e, v |-> 0]]
Pending == [kind |-> "pending", value |-> None]

At(s, k) == s[k + 1]

SeqsUpTo(S, n) == UNION {[1..k -> S] : k \in 0..n}

RECURSIVE Factorial(_)
Factorial(n) == IF n <= 1 THEN 1 ELSE n * Factorial(n - 1)

\* a common multiple of every chain length that occurs, so Scale*summ/N is exact
Scale == Factorial(IF MaxAtoms > MaxChainLen THEN MaxAtoms ELSE MaxChainLen)

(* ------------------------------- rmsd --------------------------------- *)

\* the difference added without being squared
SqDiffNoPow(a, b) == a - b

\* pow(structure.xyz[0][c1][k] - structure.xyz[0][c2][k], 2)
SqDiff(a, b) == (a - b) * (a - b)

\* the three `summ +=` lines of one loop iteration, for atoms p and q
AtomTerm(xyz, p, q) ==
    SqDiff(At(xyz, p)[1], At(xyz, q)[1])
  + SqDiff(At(xyz, p)[2], At(xyz, q)[2])
  + SqDiff(At(xyz, p)[3], At(xyz, q)[3])

\* summ after the loop iterations 0..k-1
RECURSIVE Summ(_, _, _, _)
Summ(c1, c2, xyz, k) ==
    IF k = 0 THEN 0
    ELSE Summ(c1, c2, xyz, k - 1) + AtomTerm(xyz, At(c1, k - 1), At(c2, k - 1))

\* rmsd(chain_1, chain_2, structure): the loop runs over range(0, len(chain_1));
\* chain_2[i] raises IndexError at i = len(chain_2) when chain_2 is shorter;
\* summ/N raises ZeroDivisionError when chain_1 is empty.
rmsd(c1, c2, struct) ==
    LET N == Len(c1) IN
    IF N > Len(c2) THEN Raise("IndexError")
    ELSE IF N = 0 THEN Raise("ZeroDivisionError")
    ELSE Return(PyFloat((Scale * Summ(c1, c2, struct.xyz, N)) \div N))

(* ----------------------------- min_rmsd ------------------------------- *)

\* first index of range(2, len(rmsd_list) - 1)
ScanFrom == 2

\* the test with a non-strict comparison on the right
IsDipNonStrict(v, k) == At(v, k) < At(v, k - 1) /\ At(v, k) <= At(v, k + 1)

\* rmsd_list[i] < rmsd_list[i - 1] and rmsd_list[i] < rmsd_list[i + 1]
IsDip(v, k) == At(v, k) < At(v, k - 1) /\ At(v, k) < At(v, k + 1)

\* entering min_rmsd: the for loop takes its first index
min_rmsd_enter ==
    /\ pc = "min_rmsd"
    /\ i' = ScanFrom
    /\ pc' = "min_rmsd_loop"
    /\ UNCHANGED <<call, rmsd_list, chain_1, chain_2, structure, list_len,
                   session, chain_list, m, result>>

\* what the caller does with min_rmsd's value x
min_rmsd_return(x) ==
    IF call = "min_rmsd"
    THEN /\ result' = Return(x)
         /\ pc' = "done"
    ELSE /\ result' = result
         /\ pc' = "predict_minus_1"

\* range(2, len(rmsd_list)): the loop running up to the last index
ScanStopAtLen(v) == Len(v)

\* end (exclusive) of range(2, len(rmsd_list) - 1)
ScanStop(v) == Len(v) - 1

\* one iteration of the for loop: return i at a dip, else go on; reading
\* rmsd_list[i + 1] past the end of the list raises IndexError
min_rmsd_iter ==
    /\ pc = "min_rmsd_loop"
    /\ i < ScanStop(rmsd_list)
    /\ IF i + 1 >= Len(rmsd_list)
       THEN /\ result' = Raise("IndexError")
            /\ pc' = "done"
            /\ UNCHANGED <<m, i>>
       ELSE IF IsDip(rmsd_list, i)
       THEN /\ m' = PyInt(i)
            /\ min_rmsd_return(PyInt(i))
            /\ i' = i
       ELSE /\ i' = i + 1
            /\ UNCHANGED <<m, result, pc>>
    /\ UNCHANGED <<call, rmsd_list, chain_1, chain_2, structure, list_len,
                   session, chain_list>>

\* the range is exhausted: the function falls off its end and returns None
min_rmsd_exhausted ==
    /\ pc = "min_rmsd_loop"
    /\ i >= ScanStop(rmsd_list)
    /\ m' = None
    /\ min_rmsd_return(None)
    /\ UNCHANGED <<call, i, rmsd_list, chain_1, chain_2, structure, list_len,
                   session, chain_list>>

(* -------------------------- the rmsd call ----------------------------- *)

\* rmsd(chain_1, chain_2, structure) called directly
call_rmsd ==
    /\ pc = "rmsd"
    /\ result' = rmsd(chain_1, chain_2, structure)
    /\ pc' = "done"
    /\ UNCHANGED <<call, i, rmsd_list, chain_1, chain_2, structure, list_len,
                   session, chain_list, m>>

(* ----------------------- rmsd_list_from_dimer ------------------------- *)

\* a command issued to the PyMOL session: copy makes object c<obj>; align moves
\* object c<obj> (its chain A) onto chain B of object c<onto>; delete names
\* chain A of object c<obj>
Cmd(name, obj, onto) == [cmd |-> name, obj |-> obj, onto |-> onto]

\* cmd.reinitialize()
cmd_reinitialize ==
    /\ pc = "reinitialize"
    /\ session' = Append(session, Cmd("reinitialize", -1, -1))
    /\ pc' = "load"
    /\ UNCHANGED <<call, i, rmsd_list, chain_1, chain_2, structure, list_len,
                   chain_list, m, result>>

\* cmd.load(filepath + '/' + filename)
cmd_load ==
    /\ pc = "load"
    /\ session' = Append(session, Cmd("load", -1, -1))
    /\ pc' = "copy"
    /\ i' = 0
    /\ UNCHANGED <<call, rmsd_list, chain_1, chain_2, structure, list_len,
                   chain_list, m, result>>

\* for i in range(0, list_len): cmd.copy('c' + str(i), filename[:-4])
cmd_copy ==
    /\ pc = "copy"
    /\ IF i < list_len
       THEN /\ session' = Append(session, Cmd("copy", i, -1))
            /\ i' = i + 1
            /\ pc' = pc
       ELSE /\ session' = session
            /\ i' = 0
            /\ pc' = "align"
    /\ UNCHANGED <<call, rmsd_list, chain_1, chain_2, structure, list_len,
                   chain_list, m, result>>

\* the align call with its two selections exchanged
AlignCmdSwapped(k) == Cmd("align", k, k + 1)

\* cmd.align('/c' + str(i + 1) + '//A', '/c' + str(i) + '//B')
AlignCmd(k) == Cmd("align", k + 1, k)

\* for i in range(0, list_len - 1): cmd.align(...)
cmd_align ==
    /\ pc = "align"
    /\ IF i < list_len - 1
       THEN /\ session' = Append(session, AlignCmd(i))
            /\ i' = i + 1
            /\ pc' = pc
       ELSE /\ session' = session
            /\ i' = 0
            /\ pc' = "delete"
    /\ UNCHANGED <<call, rmsd_list, chain_1, chain_2, structure, list_len,
                   chain_list, m, result>>

\* for i in range(0, list_len): cmd.delete('/c' + str(i + 1) + '//A')
cmd_delete ==
    /\ pc = "delete"
    /\ IF i < list_len
       THEN /\ session' = Append(session, Cmd("delete", i + 1, -1))
            /\ i' = i + 1
            /\ pc' = pc
       ELSE /\ session' = session
            /\ i' = 0
            /\ pc' = "select"
    /\ UNCHANGED <<call, rmsd_list, chain_1, chain_2, structure, list_len,
                   chain_list, m, result>>

\* cmd.select('all')
cmd_select ==
    /\ pc = "select"
    /\ session' = Append(session, Cmd("select", -1, -1))
    /\ pc' = "save"
    /\ UNCHANGED <<call, i, rmsd_list, chain_1, chain_2, structure, list_len,
                   chain_list, m, result>>

\* cmd.save(temp_file)
cmd_save ==
    /\ pc = "save"
    /\ session' = Append(session, Cmd("save", -1, -1))
    /\ pc' = "md_load"
    /\ UNCHANGED <<call, i, rmsd_list, chain_1, chain_2, structure, list_len,
                   chain_list, m, result>>

\* The atoms of a structure with the chains chs (each [natoms, at]), numbered
\* consecutively chain by chain: per atom, its chain's index and its coordinates.
RECURSIVE AtomsOf(_, _)
AtomsOf(chs, k) ==
    IF k = 0 THEN [xyz |-> <<>>, chain_index |-> <<>>]
    ELSE LET rest == AtomsOf(chs, k - 1) IN
         [xyz |-> rest.xyz \o [a \in 1..chs[k].natoms |-> chs[k].at],
          chain_index |-> rest.chain_index \o [a \in 1..chs[k].natoms |-> k - 1]]

\* struct = md.load(temp_file): the structure read back is an input.  It has
\* numCh chains, each non-empty; every chain has natoms atoms except chain dev
\* (if any), which has other.  The atoms of a compared chain 2k (k < list_len)
\* sit at pts[k]; the chains the code never reads from sit at the origin.
md_load ==
    /\ pc = "md_load"
    /\ \E numCh \in 0..(2 * list_len + 2), natoms \in 1..MaxAtoms,
          other \in 1..MaxAtoms, pts \in [0..(list_len - 1) -> Points] :
          \E dev \in {-1} \cup {2 * k : k \in 0..(list_len - 1)} :
             /\ (dev = -1) = (other = natoms)
             /\ dev < numCh
             /\ structure' = AtomsOf(
                    [j \in 1..numCh |->
                        [natoms |-> IF j - 1 = dev THEN other ELSE natoms,
                         at |-> IF (j - 1) % 2 = 0 /\ j - 1 < 2 * list_len
                                THEN pts[(j - 1) \div 2]
                                ELSE <<0, 0, 0>>]], numCh)
    /\ pc' = "chain_list"
    /\ UNCHANGED <<call, i, rmsd_list, chain_1, chain_2, list_len, session,
                   chain_list, m, result>>

\* [atom.index for atom in struct.topology.atoms if atom.residue.chain.index == j]
ChainAtoms(struct, j) ==
    LET idx == [a \in 1..Len(struct.chain_index) |-> a - 1] IN
    SelectSeq(idx, LAMBDA a : At(struct.chain_index, a) = j)

\* for i in range(0, 2*list_len): chain_list.append(chain)
build_chain_list ==
    /\ pc = "chain_list"
    /\ chain_list' = [j \in 1..(2 * list_len) |-> ChainAtoms(structure, j - 1)]
    /\ rmsd_list' = <<>>
    /\ i' = 0
    /\ pc' = "rmsd_list"
    /\ UNCHANGED <<call, chain_1, chain_2, structure, list_len, session, m, result>>

\* chain_list[2*i + 1]: the neighbouring chain taken instead
ComparedChainOdd(k) == 2 * k + 1

\* the index 2*i of the chain compared with chain_list[0]
ComparedChain(k) == 2 * k

\* for i in range(0, list_len):
\*     rmsd_list.append(rmsd(chain_list[0], chain_list[2*i], struct))
\* return rmsd_list
rmsd_list_iter ==
    /\ pc = "rmsd_list"
    /\ IF i < list_len
       THEN LET r == rmsd(At(chain_list, 0), At(chain_list, ComparedChain(i)), structure)
            IN  IF r.kind = "raise"
                THEN /\ result' = r
                     /\ pc' = "done"
                     /\ UNCHANGED <<rmsd_list, i>>
                ELSE /\ rmsd_list' = Append(rmsd_list, r.value.v)
                     /\ i' = i + 1
                     /\ UNCHANGED <<result, pc>>
       ELSE /\ pc' = "min_rmsd"
            /\ UNCHANGED <<rmsd_list, i, result>>
    /\ UNCHANGED <<call, chain_1, chain_2, structure, list_len, session,
                   chain_list, m>>

(* ----------------------- predict_stoichiometry ------------------------ *)

\* the value of min_rmsd returned as it is, the "- 1" forgotten
MinusNothing(x) ==
    IF x.type = "int" THEN Return(PyInt(x.v)) ELSE Raise("TypeError")

\* None taken for 0, so that "no minimum" comes back as the number -1
MinusOneNoneAsZero(x) ==
    Return(PyInt((IF x.type = "int" THEN x.v ELSE 0) - 1))

\* min_rmsd(...) - 1: None - 1 raises TypeError
MinusOne(x) ==
    IF x.type = "int" THEN Return(PyInt(x.v - 1)) ELSE Raise("TypeError")

\* return min_rmsd(rmsd_list_from_dimer(...)) - 1
predict_minus_1 ==
    /\ pc = "predict_minus_1"
    /\ result' = MinusOne(m)
    /\ pc' = "done"
    /\ UNCHANGED <<call, i, rmsd_list, chain_1, chain_2, structure, list_len,
                   session, chain_list, m>>

(* ------------------------------ Init ---------------------------------- *)

NoStructure == [xyz |-> <<>>, chain_index |-> <<>>]

InitMinRmsd ==
    /\ call = "min_rmsd"
    /\ pc = "min_rmsd"
    /\ rmsd_list \in SeqsUpTo(0..MaxVal, MaxLen)
    /\ chain_1 = <<>> /\ chain_2 = <<>> /\ structure = NoStructure
    /\ list_len = 0

InitRmsd ==
    /\ call = "rmsd"
    /\ pc = "rmsd"
    /\ \E xyz \in [1..NAtoms -> Points] :
          structure = [xyz |-> xyz, chain_index |-> [a \in 1..NAtoms |-> 0]]
    /\ chain_1 \in SeqsUpTo(0..(NAtoms - 1), MaxChainLen)
    /\ chain_2 \in SeqsUpTo(0..(NAtoms - 1), MaxChainLen)
    /\ rmsd_list = <<>>
    /\ list_len = 0

InitPredict ==
    /\ call = "predict_stoichiometry"
    /\ pc = "reinitialize"
    /\ list_len \in 0..MaxListLen
    /\ rmsd_list = <<>>
    /\ chain_1 = <<>> /\ chain_2 = <<>> /\ structure = NoStructure

Init ==
    /\ i = 0
    /\ session = <<>>
    /\ chain_list = <<>>
    /\ m = None
    /\ result = Pending
    /\ \/ InitMinRmsd
       \/ InitRmsd
       \/ InitPredict

Next ==
    \/ min_rmsd_enter
    \/ min_rmsd_iter
    \/ min_rmsd_exhausted
    \/ call_rmsd
    \/ cmd_reinitialize
    \/ cmd_load
    \/ cmd_copy
    \/ cmd_align
    \/ cmd_delete
    \/ cmd_select
    \/ cmd_save
    \/ md_load
    \/ build_chain_list
    \/ rmsd_list_iter
    \/ predict_minus_1

Spec == Init /\ [][Next]_vars

(* ============================== claims ================================ *)

\* k is a strict local minimum of v inside the scanned range 2..len(v)-2
StrictMinAt(v, k) ==
    /\ 2 <= k /\ k <= Len(v) - 2
    /\ v[k + 1] < v[k] /\ v[k + 1] < v[k + 2]

HasStrictMin(v) == \E k \in 2..(Len(v) - 2) : StrictMinAt(v, k)

\* rmsd_list_from_dimer has returned its list to predict_stoichiometry
RmsdListReturned ==
    /\ call = "predict_stoichiometry"
    /\ \/ pc \in {"min_rmsd", "min_rmsd_loop", "predict_minus_1"}
       \/ pc = "done" /\ result.value.type \in {"int", "TypeError"}

\* rmsd_list_from_dimer has ended in an exception of rmsd
RmsdListRaised ==
    /\ call = "predict_stoichiometry"
    /\ pc = "done"
    /\ result.kind = "raise"
    /\ result.value.type \in {"IndexError", "ZeroDivisionError"}

C2_NotFound ==
    (call = "min_rmsd" /\ pc = "done" /\ ~HasStrictMin(rmsd_list)) =>
        /\ result.kind = "return"
        /\ result.value.type = "NoneType"

\* min_rmsd returned None on a list of full length whose only dip is a plateau
C2_Witness ==
    /\ call = "min_rmsd" /\ pc = "done"
    /\ Len(rmsd_list) = MaxLen
    /\ At(rmsd_list, 2) < At(rmsd_list, 1)
    /\ At(rmsd_list, 2) = At(rmsd_list, 3)
    /\ result.kind = "return" /\ result.value.type = "NoneType"

\* C3: predict_stoichiometry returns min_rmsd(rmsd_list) - 1 whenever min_rmsd
\* finds an index, and ends in an exception, returning no number, whenever
\* min_rmsd finds no strict local minimum in range.
C3_PredictIsMinMinusOne ==
    (RmsdListReturned /\ pc = "done") =>
        /\ Len(rmsd_list) = list_len
        /\ IF HasStrictMin(rmsd_list)
           THEN /\ m.type = "int"
                /\ result.kind = "return"
                /\ result.value.type = "int"
                /\ result.value.v = m.v - 1
           ELSE /\ m.type = "NoneType"
                /\ result.kind = "raise"

\* predict_stoichiometry failed on a full-length list without a dip
C3_Witness ==
    /\ RmsdListReturned /\ pc = "done"
    /\ list_len = MaxListLen
    /\ ~HasStrictMin(rmsd_list)
    /\ result.kind = "raise" /\ result.value.type = "TypeError"

\* C4 as stated: for every list_len >= 1 rmsd_list_from_dimer completes and
\* returns exactly list_len values, the one at index 0 being 0, RMSD(A, A, S)
\* being 0 for any chain index list A.
C4_AlwaysCompletes ==
    (call = "predict_stoichiometry" /\ list_len >= 1) =>
        /\ ~RmsdListRaised
        /\ RmsdListReturned =>
              (Len(rmsd_list) = list_len /\ At(rmsd_list, 0) = 0)

\* C4 amended: whenever rmsd_list_from_dimer returns, it returns exactly
\* list_len values and, for list_len >= 1, the value at index 0 is 0; it ends
\* in an exception of rmsd exactly when chain_list[0] is empty
\* (ZeroDivisionError: RMSD(A, A, S) is 0 only for a non-empty A) or some
\* compared chain_list[2*i] is shorter than chain_list[0] (IndexError).
C4_ReturnsListLenValues ==
    LET Short(k) == Len(At(chain_list, 2 * k)) < Len(At(chain_list, 0)) IN
    /\ RmsdListReturned =>
          /\ Len(rmsd_list) = list_len
          /\ list_len >= 1 => At(rmsd_list, 0) = 0
          /\ list_len >= 1 => Len(At(chain_list, 0)) > 0
          /\ \A k \in 0..(list_len - 1) : ~Short(k)
    /\ RmsdListRaised =>
          /\ list_len >= 1
          /\ Len(rmsd_list) < list_len
          /\ IF result.value.type = "ZeroDivisionError"
             THEN Len(At(chain_list, 0)) = 0
             ELSE Short(Len(rmsd_list))

\* rmsd_list_from_dimer returned the longest list, with a non-zero entry
C4_Witness ==
    /\ call = "predict_stoichiometry" /\ pc = "min_rmsd"
    /\ list_len = MaxListLen
    /\ Len(rmsd_list) = list_len
    /\ At(rmsd_list, 0) = 0 /\ At(rmsd_list, 1) > 0

\* C5: rmsd called with chains of unequal length raises an error in both
\* directions (chain_1 longer, chain_1 shorter) instead of computing a result
\* over part of the atoms.
C5_RaisesOnUnequalLength ==
    (call = "rmsd" /\ pc = "done" /\ Len(chain_1) # Len(chain_2)) =>
        result.kind = "raise"

\* C6: rmsd is symmetric in its two chains: for equal-length chains A and B,
\* rmsd(A, B, S) and rmsd(B, A, S) end the same way with the same value.
C6_Symmetric ==
    (call = "rmsd" /\ pc = "done" /\ Len(chain_1) = Len(chain_2)) =>
        LET r == rmsd(chain_2, chain_1, structure) IN
        /\ result.kind = r.kind
        /\ result.kind = "return" => result.value.v = r.value.v

\* rmsd returned a non-zero value for two different full-length chains
C6_Witness ==
    /\ call = "rmsd" /\ pc = "done"
    /\ Len(chain_1) = MaxChainLen /\ Len(chain_2) = MaxChainLen
    /\ chain_1 # chain_2
    /\ result.kind = "return" /\ result.value.v > 0

\* the positions of the commands named name in the session
Issued(name) == {p \in DOMAIN session : session[p].cmd = name}

\* C8: chain-A deletion is issued for exactly the copies 1..list_len-1: never
\* for copy 0, once for every other copy, and never for a copy index that was
\* not created (the copies are c0..c(list_len-1)).
C8_DeleteTargets ==
    /\ \A p \in Issued("delete") :
          /\ session[p].obj # 0
          /\ \E q \in Issued("copy") : session[q].obj = session[p].obj
    /\ \A p, q \in Issued("delete") : session[p].obj = session[q].obj => p = q
    /\ Issued("select") # {} =>
          {session[p].obj : p \in Issued("delete")} = 1..(list_len - 1)

\* C9: the steps of rmsd_list_from_dimer come in a fixed order: reinitialize
\* first; all list_len copies before any alignment; alignments for i = 0, 1,
\* ..., list_len-2 in increasing order, copy i+1 moved onto copy i only after
\* copy i was moved for the last time; every copy 1..list_len-1 moved exactly
\* once and copy 0 never; no deletion before the last alignment; the scratch
\* file written only after all deletions.  The order is stated on the commands
\* issued so far, in every state in which the session has just taken a command
\* or may take one; once the structure is read back only the last command
\* (save) is looked at.
C9_StepOrder ==
    IF pc \notin {"reinitialize", "load", "copy", "align", "delete", "select",
                  "save", "md_load"}
    THEN call = "predict_stoichiometry" =>
            session[Len(session)].cmd = "save"
    ELSE
    /\ session # <<>> => session[1].cmd = "reinitialize"
    /\ \A p \in Issued("load") : \E q \in Issued("reinitialize") : q < p
    /\ \A p \in Issued("copy") : \E q \in Issued("load") : q < p
    /\ \A p \in Issued("align") :
          /\ Cardinality({q \in Issued("copy") : q < p}) = list_len
          /\ \A q \in Issued("copy") : q < p
          \* the j-th alignment is the one of i = j - 1
          /\ LET j == Cardinality({q \in Issued("align") : q <= p}) IN
             /\ session[p].obj = j
             /\ session[p].onto = j - 1
          \* the target is in its final position
          /\ \/ session[p].onto = 0
             \/ \E q \in Issued("align") : q < p /\ session[q].obj = session[p].onto
          /\ \A q \in Issued("align") : q > p => session[q].obj # session[p].onto
          /\ session[p].obj \in 1..(list_len - 1)
    /\ \A p, q \in Issued("align") : session[p].obj = session[q].obj => p = q
    /\ \A p \in Issued("delete") :
          /\ \A q \in Issued("align") : q < p
          /\ {session[q].obj : q \in Issued("align")} = 1..(list_len - 1)
    /\ \A p \in Issued("save") :
          /\ \A q \in Issued("delete") : q < p
          /\ Cardinality(Issued("delete")) = list_len
    /\ pc = "md_load" =>
          /\ Cardinality(Issued("save")) = 1
          /\ Cardinality(Issued("align")) = IF list_len = 0 THEN 0 ELSE list_len - 1
          /\ Cardinality(Issued("copy")) = list_len

\* the whole command sequence of the longest run has been issued
C9_Witness ==
    /\ call = "predict_stoichiometry" /\ pc = "md_load"
    /\ list_len = MaxListLen
    /\ Issued("save") # {}
    /\ Cardinality(Issued("align")) = MaxListLen - 1

\* C10: a value returned by predict_stoichiometry(.., .., N) lies in 1..N-3:
\* it is never N, N-1 or N-2, and for N < 4 no value is returned.
C10_ResultRange ==
    (call = "predict_stoichiometry" /\ pc = "done" /\ result.kind = "return") =>
        /\ result.value.v \in 1..(list_len - 3)
        /\ list_len >= 4

\* predict_stoichiometry returned the largest value its range allows
C10_Witness ==
    /\ call = "predict_stoichiometry" /\ pc = "done"
    /\ result.kind = "return"
    /\ list_len = MaxListLen
    /\ result.value.v = list_len - 3

====
